---- MODULE Spec2Model ----
(***************************************************************************)
(* A model of the LLM-compiler output parsers                              *)
(* (llama_index/agent/llm_compiler/output_parser.py) and of the event      *)
(* protocol of LLMPredictor (llama_index/llm_predictor/base.py).           *)
(*                                                                         *)
(* Python strings are sequences of one-character strings.  Python indices  *)
(* are 0-based; the Py* operators take and return 0-based indices, all     *)
(* other positions are 1-based positions of Sequences.                     *)
(***************************************************************************)
EXTENDS Integers, Sequences, FiniteSets, TLC

VARIABLES
    jtext,      \* joiner: the join text handed to LLMCompilerJoinerParser.parse
    jdone,      \* joiner: parse has returned (or raised)
    jout,       \* joiner: the JoinerOutput (plus whether parse raised)
    ptext,      \* plan parser: the plan text handed to LLMCompilerPlanParser.parse
    pdone,      \* plan parser: the results list has been built
    results,    \* plan parser: the list of LLMCompilerParseResult
    dargs,      \* default_dependency_rule: the argument string
    didx,       \* default_dependency_rule: the idx asked about
    ddone,      \* default_dependency_rule: has returned
    numbers,    \* default_dependency_rule: the list of matched integers
    dout,       \* default_dependency_rule: the returned boolean
    pc,         \* predictor: position of each call
    kind,       \* predictor: which method each call runs
    event_id,   \* predictor: each call's local variable event_id
    next_id,    \* predictor: the next event id the callback manager hands out
    trace       \* predictor: callback events and LLM requests, in order

jvars == <<jtext, jdone, jout>>
pvars == <<ptext, pdone, results>>
dvars == <<dargs, didx, ddone, numbers, dout>>
lvars == <<pc, kind, event_id, next_id, trace>>
vars == <<jtext, jdone, jout, ptext, pdone, results, dargs, didx, ddone,
          numbers, dout, pc, kind, event_id, next_id, trace>>

(***************************************************************************)
(* Bounds of the model.                                                    *)
(***************************************************************************)
MaxJoinLines == 2
MaxPlanLines == 3
MaxArgsLen == 4
MaxIdx == 3
NumCalls == 2

(***************************************************************************)
(* Character classes and Python string primitives.                         *)
(***************************************************************************)
NL == "\n"

Digits == {"0", "1", "2", "3", "4", "5", "6", "7", "8", "9"}

Letters ==
    {"a", "b", "c", "d", "e", "f", "g", "h", "i", "j", "k", "l", "m", "n", "o",
     "p", "q", "r", "s", "t", "u", "v", "w", "x", "y", "z",
     "A", "B", "C", "D", "E", "F", "G", "H", "I", "J", "K", "L", "M", "N", "O",
     "P", "Q", "R", "S", "T", "U", "V", "W", "X", "Y", "Z"}

IsDigit(c) == c \in Digits

\* \w of a str pattern: letters, digits and the underscore
IsWord(c) == c \in Letters \cup Digits \cup {"_"}

\* \s, and the characters str.strip() removes
IsSpace(c) == c \in {" ", "\t", "\n", "\r", "\f"}

IsNewline(c) == c = NL

\* . and [^\n]
NotNewline(c) == c # NL

Min(S) == CHOOSE x \in S : \A y \in S : x <= y

Max(S) == CHOOSE x \in S : \A y \in S : y <= x

\* the text from 1-based position p to the end
From(s, p) == SubSeq(s, p, Len(s))

\* s has sub at 1-based position p
HasAt(s, p, sub) ==
    /\ p >= 1
    /\ p + Len(sub) - 1 <= Len(s)
    /\ SubSeq(s, p, p + Len(sub) - 1) = sub

\* a prefix test that accepts the prefix anywhere in the string
StartsWithAnywhere(s, prefix) == \E p \in 1..(Len(s) + 1) : HasAt(s, p, prefix)

\* str.startswith
StartsWith(s, prefix) == HasAt(s, 1, prefix)

\* sub in s
Contains(s, sub) == \E p \in 1..(Len(s) + 1) : HasAt(s, p, sub)

\* str.find(c) for a one-character c: the 0-based index of the first
\* occurrence, -1 when there is none
PyFind(s, c) ==
    LET hits == {i \in 1..Len(s) : s[i] = c}
    IN  IF hits = {} THEN -1 ELSE Min(hits) - 1

\* how a slice bound is normalised: a negative bound counts from the end,
\* and the result is clamped to 0..len
PyBound(n, i) ==
    IF i < 0 THEN (IF i + n < 0 THEN 0 ELSE i + n)
    ELSE IF i > n THEN n ELSE i

\* s[a:b]
PySlice(s, a, b) ==
    LET lo == PyBound(Len(s), a)
        hi == PyBound(Len(s), b)
    IN  IF lo >= hi THEN <<>> ELSE SubSeq(s, lo + 1, hi)

\* str.split(sep) for a non-empty separator: the pieces between the
\* non-overlapping occurrences of sep, scanned left to right
RECURSIVE PySplit(_, _)
PySplit(s, sep) ==
    LET hits == {p \in 1..Len(s) : HasAt(s, p, sep)}
    IN  IF hits = {} THEN <<s>>
        ELSE LET p == Min(hits)
             IN  <<SubSeq(s, 1, p - 1)>> \o PySplit(From(s, p + Len(sep)), sep)

\* str.strip()
PyStrip(s) ==
    LET keep == {i \in 1..Len(s) : ~IsSpace(s[i])}
    IN  IF keep = {} THEN <<>> ELSE SubSeq(s, Min(keep), Max(keep))

\* int(digits)
DigitValue(c) ==
    CASE c = "0" -> 0 [] c = "1" -> 1 [] c = "2" -> 2 [] c = "3" -> 3
      [] c = "4" -> 4 [] c = "5" -> 5 [] c = "6" -> 6 [] c = "7" -> 7
      [] c = "8" -> 8 [] c = "9" -> 9

RECURSIVE PyInt(_)
PyInt(ds) ==
    IF ds = <<>> THEN 0
    ELSE 10 * PyInt(SubSeq(ds, 1, Len(ds) - 1)) + DigitValue(ds[Len(ds)])

\* the character classes of the patterns, by name
InClass(cls, c) ==
    CASE cls = "digit"   -> IsDigit(c)
      [] cls = "word"    -> IsWord(c)
      [] cls = "space"   -> IsSpace(c)
      [] cls = "newline" -> IsNewline(c)
      [] cls = "any"     -> NotNewline(c)

\* where a greedy run X* (X+) that starts at position p ends: the position
\* of the first character from p on that is not in the class, Len(s)+1 when
\* there is none.  Every run of the patterns below is followed by something
\* its class excludes, so giving back characters never helps and the run
\* the engine settles on is the maximal one.
RunEnd(s, p, cls) ==
    Min({j \in p..(Len(s) + 1) : j = Len(s) + 1 \/ ~InClass(cls, s[j])})

\* the character at position p, "" past the end
At(s, p) == IF p >= 1 /\ p <= Len(s) THEN s[p] ELSE ""

(***************************************************************************)
(* LLMCompilerJoinerParser.parse                                           *)
(***************************************************************************)
JOINER_REPLAN == <<"R", "e", "p", "l", "a", "n">>

ACTION_PREFIX == <<"A", "c", "t", "i", "o", "n", ":">>

THOUGHT_PREFIX == <<"T", "h", "o", "u", "g", "h", "t", ":">>

\* thought, answer, is_replan = "", "", False
JoinerDefault ==
    [thought |-> <<>>, answer |-> <<>>, is_replan |-> FALSE, raised |-> FALSE]

\* answer = ans[ans.find("(") + 1 : ans.find(")")]
ActionAnswer(ans) == PySlice(ans, PyFind(ans, "(") + 1, PyFind(ans, ")"))

\* is_replan = JOINER_REPLAN in ans
ActionIsReplan(ans) == Contains(ans, JOINER_REPLAN)

\* the index in ans.split("Thought:")[1]
ThoughtIndex == 1

\* ans.split("Thought:")[1]: the piece at that 0-based index
ThoughtPiece(parts) == parts[ThoughtIndex + 1]

\* ans.startswith("Action:") / ans.startswith("Thought:")
IsActionLine(ans) == StartsWith(ans, ACTION_PREFIX)

IsThoughtLine(ans) == StartsWith(ans, THOUGHT_PREFIX)

\* a loop body that lets is_replan stick once an Action line has set it
JoinerStepSticky(acc, ans) ==
    IF IsActionLine(ans)
    THEN [acc EXCEPT !.answer = ActionAnswer(ans),
                     !.is_replan = acc.is_replan \/ ActionIsReplan(ans)]
    ELSE IF IsThoughtLine(ans)
    THEN [acc EXCEPT !.thought = PyStrip(ThoughtPiece(PySplit(ans, THOUGHT_PREFIX)))]
    ELSE acc

\* one iteration of "for ans in raw_answers"; an IndexError ends the call
JoinerStep(acc, ans) ==
    IF acc.raised THEN acc
    ELSE IF IsActionLine(ans)
    THEN [acc EXCEPT !.answer = ActionAnswer(ans),
                     !.is_replan = ActionIsReplan(ans)]
    ELSE IF IsThoughtLine(ans)
    THEN LET parts == PySplit(ans, THOUGHT_PREFIX)
         IN  IF Len(parts) <= ThoughtIndex THEN [acc EXCEPT !.raised = TRUE]
             ELSE [acc EXCEPT !.thought = PyStrip(ThoughtPiece(parts))]
    ELSE acc

RECURSIVE JoinerLoop(_, _)
JoinerLoop(acc, raw_answers) ==
    IF raw_answers = <<>> THEN acc
    ELSE JoinerLoop(JoinerStep(acc, Head(raw_answers)), Tail(raw_answers))

JoinerParse(text) == JoinerLoop(JoinerDefault, PySplit(text, <<NL>>))

\* the lines the join texts of the model are made of
JoinBodies ==
    {<<>>,
     <<" ", "F", "i", "n", "i", "s", "h", "(", "4", "2", ")">>,
     <<" ", "R", "e", "p", "l", "a", "n", "(", "n", "e", "e", "d", " ", "m",
       "o", "r", "e", " ", "d", "a", "t", "a", ")">>,
     <<" ", "F", "i", "n", "i", "s", "h", "(", "f", "(", "x", ")", " ", "i",
       "s", " ", "3", ")">>,
     <<" ", "F", "i", "n", "i", "s", "h">>,
     <<" ", "d", "o", "n", "e", " ">>,
     <<" ", "a", " ", "T", "h", "o", "u", "g", "h", "t", ":", " ", "b">>,
     <<" ", "A", "c", "t", "i", "o", "n", ":", " ", "R", "e", "p", "l", "a",
       "n", "(", "y", ")">>,
     <<")", "x", "(">>}

JoinPrefixes == {<<>>, ACTION_PREFIX, THOUGHT_PREFIX}

JoinLines == {p \o b : p \in JoinPrefixes, b \in JoinBodies}

NumLines(text) == Len(PySplit(text, <<NL>>))

JoinerIdle == jtext = <<>> /\ jdone = FALSE /\ jout = JoinerDefault

\* the language model writes one more line of the join text
JoinAppendLine(l) ==
    /\ ~jdone
    /\ NumLines(jtext) < MaxJoinLines
    /\ jtext' = jtext \o <<NL>> \o l
    /\ UNCHANGED <<jdone, jout, pvars, dvars, lvars>>

\* LLMCompilerJoinerParser.parse(text)
JoinParse ==
    /\ ~jdone
    /\ jdone' = TRUE
    /\ jout' = JoinerParse(jtext)
    /\ UNCHANGED <<jtext, pvars, dvars, lvars>>

(***************************************************************************)
(* LLMCompilerPlanParser.parse.  The pattern is THOUGHT_PATTERN and a      *)
(* newline as an optional non-capturing group, followed by ACTION_PATTERN: *)
(* any newlines, digits, a dot and a space, a word, and the arguments in   *)
(* parentheses, and optionally whitespace, a hash, a word and a newline.   *)
(* A match is a record: ok, the groups, and next, the position after it.   *)
(***************************************************************************)
END_OF_PLAN == <<"<", "E", "N", "D", "_", "O", "F", "_", "P", "L", "A", "N", ">">>

\* the literal "Thought: " that opens THOUGHT_PATTERN
THOUGHT_LITERAL == <<"T", "h", "o", "u", "g", "h", "t", ":", " ">>

NoMatch == [ok |-> FALSE, thought |-> <<>>, idx |-> <<>>, tool_name |-> <<>>,
            args |-> <<>>, next |-> 0]

\* the optional last group, whitespace "#" word newline, from position p
\* (after the closing parenthesis): the position after the group when it
\* matches, p when it does not (the match then ends at p)
MatchTag(s, p) ==
    LET hash == RunEnd(s, p, "space")
        word == hash + 1
        nl   == RunEnd(s, word, "word")
    IN  IF At(s, hash) = "#" /\ nl > word /\ At(s, nl) = NL THEN nl + 1 ELSE p

\* where the greedy arguments group puts the closing parenthesis when the
\* arguments start at position open: the group takes the rest of the line
\* and gives characters back until a ")" follows, which is the last ")" of
\* the line (0: none)
ArgsClose(s, open) ==
    LET eol    == RunEnd(s, open, "any")
        closes == {k \in open..(eol - 1) : s[k] = ")"}
    IN  IF closes = {} THEN 0 ELSE Max(closes)

\* ACTION_PATTERN from position p
MatchAction(s, p, thought) ==
    LET d0 == RunEnd(s, p, "newline")
        d1 == RunEnd(s, d0, "digit")
        w0 == d1 + 2
        w1 == RunEnd(s, w0, "word")
        a0 == w1 + 1
        cl == ArgsClose(s, a0)
    IN  IF /\ d1 > d0
           /\ At(s, d1) = "." /\ At(s, d1 + 1) = " "
           /\ w1 > w0
           /\ At(s, w1) = "("
           /\ cl # 0
        THEN [ok |-> TRUE, thought |-> thought,
              idx |-> SubSeq(s, d0, d1 - 1),
              tool_name |-> SubSeq(s, w0, w1 - 1),
              args |-> SubSeq(s, a0, cl - 1),
              next |-> MatchTag(s, cl + 1)]
        ELSE NoMatch

\* the whole pattern from position p.  The optional Thought group is tried
\* first; when the text at p opens with "Thought: " the pattern without the
\* group cannot match at p (it needs a newline or a digit there).
MatchAt(s, p) ==
    LET t0 == p + Len(THOUGHT_LITERAL)
        t1 == RunEnd(s, t0, "any")
    IN  IF HasAt(s, p, THOUGHT_LITERAL) /\ At(s, t1) = NL
        THEN MatchAction(s, t1 + 1, SubSeq(s, t0, t1 - 1))
        ELSE MatchAction(s, p, <<>>)

\* re.findall(pattern, text): the non-overlapping matches, leftmost first
RECURSIVE FindAll(_, _)
FindAll(s, p) ==
    IF p > Len(s) THEN <<>>
    ELSE LET m == MatchAt(s, p)
         IN  IF m.ok THEN <<m>> \o FindAll(s, m.next)
             ELSE FindAll(s, p + 1)

\* LLMCompilerParseResult(thought=thought, idx=int(idx), tool_name=..., args=...)
ParseResult(m) ==
    [thought |-> m.thought, idx |-> PyInt(m.idx), tool_name |-> m.tool_name,
     args |-> m.args]

\* the results list parse builds from the matches
PlanResults(text) ==
    LET matches == FindAll(text, 1)
    IN  [i \in 1..Len(matches) |-> ParseResult(matches[i])]

\* the lines the plan texts of the model are made of
PlanLines ==
    {<<>>,
     <<"1", ".", " ", "a", "(", "x", ")">>,
     <<"2", ".", " ", "b", "(", "$", "1", ")">>,
     <<"1", "2", ".", " ", "j", "_", "1", "(", "f", "(", "x", ")", ")", " ", "#", "t">>,
     <<"1", ".", " ", "a", "(", "x", ")", " ", "y", ")">>,
     <<"1", ".", " ", "a", "(", "x", ")", " ", "2", ".", " ", "b", "(", "y", ")">>,
     <<"n", "o", "t", "e", " ", "3", ".", " ", "c", "(", "y", ")", " ", "e", "n", "d">>,
     <<"T", "h", "o", "u", "g", "h", "t", ":", " ", "g", "o">>,
     <<"3", ".", " ", "c", "(", "y">>,
     <<"#", "t">>,
     END_OF_PLAN}

\* the language model writes one more line of the plan
PlanAppendLine(l) ==
    /\ ~pdone
    /\ NumLines(ptext) < MaxPlanLines
    /\ ptext' = ptext \o <<NL>> \o l
    /\ UNCHANGED <<pdone, results, jvars, dvars, lvars>>

\* LLMCompilerPlanParser.parse(text), up to the call of get_graph_dict
PlanParse ==
    /\ ~pdone
    /\ pdone' = TRUE
    /\ results' = PlanResults(ptext)
    /\ UNCHANGED <<ptext, jvars, dvars, lvars>>

(***************************************************************************)
(* default_dependency_rule.  ID_PATTERN is a dollar sign, an optional "{", *)
(* one or more digits (the group) and an optional "}".                     *)
(***************************************************************************)
\* ID_PATTERN from position p: the optional "{" is taken when a digit
\* follows it; when none does, the pattern without the brace needs a digit
\* right after the "$", and "{" is none.  The optional "}" is taken whenever
\* it is there.
MatchId(s, p) ==
    LET d0 == IF At(s, p + 1) = "{" THEN p + 2 ELSE p + 1
        d1 == RunEnd(s, d0, "digit")
    IN  IF At(s, p) = "$" /\ d0 <= Len(s) /\ d1 > d0
        THEN [ok |-> TRUE, digits |-> SubSeq(s, d0, d1 - 1),
              next |-> IF At(s, d1) = "}" THEN d1 + 1 ELSE d1]
        ELSE [ok |-> FALSE, digits |-> <<>>, next |-> 0]

\* numbers = [int(match) for match in re.findall(ID_PATTERN, args)]
RECURSIVE FindIds(_, _)
FindIds(s, p) ==
    IF p > Len(s) THEN <<>>
    ELSE LET m == MatchId(s, p)
         IN  IF m.ok THEN <<PyInt(m.digits)>> \o FindIds(s, m.next)
             ELSE FindIds(s, p + 1)

\* return idx in numbers
IdxInNumbers(idx, nums) == \E i \in 1..Len(nums) : nums[i] = idx

\* the characters the argument strings of the model are made of
ArgChars == {"$", "{", "}", "1", "2", "x"}

\* scenario 5 of the specification: lookup($1, ${2}, x$3y)
ScenarioArgs ==
    <<"l", "o", "o", "k", "u", "p", "(", "$", "1", ",", " ", "$", "{", "2",
      "}", ",", " ", "x", "$", "3", "y", ")">>

\* a step's argument string grows by one character
DepAppendChar(c) ==
    /\ ~ddone
    /\ Len(dargs) < MaxArgsLen
    /\ dargs' = Append(dargs, c)
    /\ UNCHANGED <<didx, ddone, numbers, dout, jvars, pvars, lvars>>

\* default_dependency_rule(idx, args)
DefaultDependencyRule(idx) ==
    /\ ~ddone
    /\ ddone' = TRUE
    /\ didx' = idx
    /\ numbers' = FindIds(dargs, 1)
    /\ dout' = IdxInNumbers(idx, numbers')
    /\ UNCHANGED <<dargs, jvars, pvars, lvars>>

(***************************************************************************)
(* The other components at rest.                                           *)
(***************************************************************************)
PlanIdle == ptext = <<>> /\ pdone = FALSE /\ results = <<>>

DepIdle ==
    dargs = <<>> /\ didx = 0 /\ ddone = FALSE /\ numbers = <<>> /\ dout = FALSE

(***************************************************************************)
(* LLMPredictor: predict, apredict, stream, astream.  Each call is a       *)
(* process; pc is its position: "idle" (not yet called), "started" (after  *)
(* _log_start), "awaiting" (the LLM has been asked), "returned", "raised". *)
(***************************************************************************)
Calls == 1..NumCalls

PredictKinds == {"predict", "apredict"}

StreamKinds == {"stream", "astream"}

PredIdle ==
    /\ pc = [c \in Calls |-> "idle"]
    /\ kind = [c \in Calls |-> "none"]
    /\ event_id = [c \in Calls |-> 0]
    /\ next_id = 1
    /\ trace = <<>>

Event(ev, id, c) == [ev |-> ev, id |-> id, call |-> c]

\* an event id kept in one place shared by all calls: the id handed out last
EndEventIdShared(c) == next_id - 1

\* the event_id that predict / apredict pass to _log_end: the call's own
\* local variable
EndEventId(c) == event_id[c]

\* event_id = self._log_start(prompt, prompt_args): on_event_start is told
\* of the event and returns its id, a new one each time
LogStart(c) ==
    /\ trace' = Append(trace, Event("start", next_id, c))
    /\ event_id' = [event_id EXCEPT ![c] = next_id]
    /\ next_id' = next_id + 1

\* self._log_end(event_id, output, formatted_prompt)
LogEnd(c) ==
    /\ trace' = Append(trace, Event("end", EndEventId(c), c))
    /\ UNCHANGED <<event_id, next_id>>

\* predict / apredict is called: its first statement logs the start
PredictBegin(c, k) ==
    /\ pc[c] = "idle"
    /\ kind' = [kind EXCEPT ![c] = k]
    /\ LogStart(c)
    /\ pc' = [pc EXCEPT ![c] = "started"]
    /\ UNCHANGED <<jvars, pvars, dvars>>

\* the prompt is formatted and the completion is requested
\* (self._llm.complete / await self._llm.acomplete)
PredictRequest(c) ==
    /\ pc[c] = "started"
    /\ trace' = Append(trace, Event("request", 0, c))
    /\ pc' = [pc EXCEPT ![c] = "awaiting"]
    /\ UNCHANGED <<kind, event_id, next_id, jvars, pvars, dvars>>

\* the completion returns: the end is logged and the output returned
PredictReturn(c) ==
    /\ pc[c] = "awaiting"
    /\ kind[c] \in PredictKinds
    /\ LogEnd(c)
    /\ pc' = [pc EXCEPT ![c] = "returned"]
    /\ UNCHANGED <<kind, jvars, pvars, dvars>>

\* stream / astream is called: the prompt is formatted and the streaming
\* completion requested, nothing is logged
StreamBegin(c, k) ==
    /\ pc[c] = "idle"
    /\ kind' = [kind EXCEPT ![c] = k]
    /\ trace' = Append(trace, Event("request", 0, c))
    /\ pc' = [pc EXCEPT ![c] = "awaiting"]
    /\ UNCHANGED <<event_id, next_id, jvars, pvars, dvars>>

\* the stream response is returned as it is
StreamReturn(c) ==
    /\ pc[c] = "awaiting"
    /\ kind[c] \in StreamKinds
    /\ pc' = [pc EXCEPT ![c] = "returned"]
    /\ UNCHANGED <<kind, event_id, next_id, trace, jvars, pvars, dvars>>

\* the LLM call raises: the exception leaves the method at once
LLMRaise(c) ==
    /\ pc[c] = "awaiting"
    /\ pc' = [pc EXCEPT ![c] = "raised"]
    /\ UNCHANGED <<kind, event_id, next_id, trace, jvars, pvars, dvars>>

(***************************************************************************)
(* Specifications, one per component.                                      *)
(***************************************************************************)
JoinInit ==
    /\ jtext \in JoinLines
    /\ jdone = FALSE
    /\ jout = JoinerDefault
    /\ PlanIdle /\ DepIdle /\ PredIdle

JoinNext ==
    \/ \E l \in JoinLines : JoinAppendLine(l)
    \/ JoinParse

SpecJoiner == JoinInit /\ [][JoinNext]_vars

PlanInit ==
    /\ ptext \in PlanLines
    /\ pdone = FALSE
    /\ results = <<>>
    /\ JoinerIdle /\ DepIdle /\ PredIdle

PlanNext ==
    \/ \E l \in PlanLines : PlanAppendLine(l)
    \/ PlanParse

SpecPlan == PlanInit /\ [][PlanNext]_vars

DepInit ==
    /\ dargs \in {<<>>, ScenarioArgs}
    /\ didx = 0
    /\ ddone = FALSE
    /\ numbers = <<>>
    /\ dout = FALSE
    /\ JoinerIdle /\ PlanIdle /\ PredIdle

DepNext ==
    \/ \E c \in ArgChars : DepAppendChar(c)
    \/ \E idx \in 0..MaxIdx : DefaultDependencyRule(idx)

SpecDep == DepInit /\ [][DepNext]_vars

PredInit == PredIdle /\ JoinerIdle /\ PlanIdle /\ DepIdle

PredNext ==
    \/ \E c \in Calls, k \in PredictKinds : PredictBegin(c, k)
    \/ \E c \in Calls : PredictRequest(c)
    \/ \E c \in Calls : PredictReturn(c)
    \/ \E c \in Calls, k \in StreamKinds : StreamBegin(c, k)
    \/ \E c \in Calls : StreamReturn(c)
    \/ \E c \in Calls : LLMRaise(c)

SpecPredictor == PredInit /\ [][PredNext]_vars

(***************************************************************************)
(* What the claims about the joiner talk about, read off the text itself.  *)
(***************************************************************************)
\* the positions at which the lines of a text start
LineStarts(text) == {1} \cup {p + 1 : p \in {q \in 1..Len(text) : text[q] = NL}}

\* the line that starts at position p
LineAt(text, p) == SubSeq(text, p, RunEnd(text, p, "any") - 1)

\* the positions of the lines that start with a prefix
LinesWith(text, prefix) == {p \in LineStarts(text) : HasAt(text, p, prefix)}

\* the last line that starts with a prefix
LastLineWith(text, prefix) == LineAt(text, Max(LinesWith(text, prefix)))

FirstOpen(l) == Min({i \in 1..Len(l) : l[i] = "("})

LastClose(l) == Max({i \in 1..Len(l) : l[i] = ")"})

Count(l, c) == Cardinality({i \in 1..Len(l) : l[i] = c})

\* the text of a line after its prefix, surrounding whitespace removed
AfterPrefix(l, prefix) == PyStrip(From(l, Len(prefix) + 1))

\* C1: the answer of an Action line is the substring strictly between the
\* first "(" and the last ")" of that line, also when the payload itself
\* holds a ")".
C1_AnswerFirstOpenToLastClose ==
    (jdone /\ LinesWith(jtext, ACTION_PREFIX) # {}) =>
        LET l == LastLineWith(jtext, ACTION_PREFIX)
        IN  (Count(l, "(") > 0 /\ Count(l, ")") > 0 /\ FirstOpen(l) < LastClose(l))
                => jout.answer = SubSeq(l, FirstOpen(l) + 1, LastClose(l) - 1)

\* C6: parse returns without raising on every join text, and when no line
\* starts with "Action:" the answer is empty and is_replan is false.
C6_JoinerNeverFails ==
    jdone =>
        /\ ~jout.raised
        /\ LinesWith(jtext, ACTION_PREFIX) = {}
               => (jout.answer = <<>> /\ jout.is_replan = FALSE)

\* a parsed text without an Action line that nevertheless holds the replan
\* marker, a parenthesised payload and a Thought line
C6_Witness ==
    /\ jdone
    /\ LinesWith(jtext, ACTION_PREFIX) = {}
    /\ LinesWith(jtext, THOUGHT_PREFIX) # {}
    /\ Contains(jtext, JOINER_REPLAN)
    /\ Contains(jtext, <<"(">>)
    /\ jout.answer = <<>>
    /\ ~jout.is_replan

\* the join texts C7 is about: at most one Thought line and exactly one
\* Action line, which reads "Action:" A "(" p ")" with A and p free of
\* parentheses
C7Form(text) ==
    /\ Cardinality(LinesWith(text, THOUGHT_PREFIX)) <= 1
    /\ Cardinality(LinesWith(text, ACTION_PREFIX)) = 1
    /\ LET l == LastLineWith(text, ACTION_PREFIX)
       IN  /\ Count(l, "(") = 1
           /\ Count(l, ")") = 1
           /\ l[Len(l)] = ")"

\* C7: on such a text thought is the text of the Thought line with the
\* surrounding whitespace removed ("" without a Thought line), answer is
\* the payload p, and is_replan says whether "Replan" occurs in A or in p.
C7_ThoughtAnswerReplan ==
    (jdone /\ C7Form(jtext)) =>
        LET l == LastLineWith(jtext, ACTION_PREFIX)
            a == SubSeq(l, Len(ACTION_PREFIX) + 1, FirstOpen(l) - 1)
            p == SubSeq(l, FirstOpen(l) + 1, Len(l) - 1)
        IN  /\ jout.answer = p
            /\ jout.is_replan = (Contains(a, JOINER_REPLAN) \/ Contains(p, JOINER_REPLAN))
            /\ jout.thought =
                   IF LinesWith(jtext, THOUGHT_PREFIX) = {} THEN <<>>
                   ELSE AfterPrefix(LastLineWith(jtext, THOUGHT_PREFIX), THOUGHT_PREFIX)

\* C9: answer and is_replan both come from the last line that starts with
\* "Action:", and thought from the last line that starts with "Thought:",
\* whatever the order of the lines.
C9_LastLineWins ==
    jdone =>
        /\ LinesWith(jtext, ACTION_PREFIX) # {} =>
               LET l == LastLineWith(jtext, ACTION_PREFIX)
               IN  /\ jout.answer = ActionAnswer(l)
                   /\ jout.is_replan = Contains(l, JOINER_REPLAN)
        /\ LinesWith(jtext, THOUGHT_PREFIX) # {} =>
               LET l == LastLineWith(jtext, THOUGHT_PREFIX)
               IN  jout.thought = PyStrip(ThoughtPiece(PySplit(l, THOUGHT_PREFIX)))

\* two Action lines, the earlier with the replan marker and the later
\* without, parsed to is_replan = false
C9_Witness ==
    /\ jdone
    /\ Cardinality(LinesWith(jtext, ACTION_PREFIX)) = 2
    /\ Contains(LineAt(jtext, Min(LinesWith(jtext, ACTION_PREFIX))), JOINER_REPLAN)
    /\ ~Contains(LastLineWith(jtext, ACTION_PREFIX), JOINER_REPLAN)
    /\ ~jout.is_replan

(***************************************************************************)
(* What the claims about the plan parser talk about.                       *)
(***************************************************************************)
AllIn(l, a, b, cls) == \A i \in a..b : InClass(cls, l[i])

\* the line reads digits ". " word "(" ... with the dot at position dot
\* and the opening parenthesis at position open
StepHead(l, dot, open) ==
    /\ dot > 1 /\ AllIn(l, 1, dot - 1, "digit")
    /\ At(l, dot) = "." /\ At(l, dot + 1) = " "
    /\ open > dot + 2 /\ AllIn(l, dot + 2, open - 1, "word")
    /\ At(l, open) = "("

\* opening minus closing parentheses in l[a..b]
Depth(l, a, b) ==
    Cardinality({i \in a..b : l[i] = "("}) - Cardinality({i \in a..b : l[i] = ")"})

\* the closing parenthesis that matches the opening one at position open
\* (0: none on the line)
MatchingClose(l, open) ==
    LET ends == {k \in (open + 1)..Len(l) : Depth(l, open, k) = 0}
    IN  IF ends = {} THEN 0 ELSE Min(ends)

\* the text after position close is empty or whitespace "#" word
TagOrNothing(l, close) ==
    \/ close = Len(l)
    \/ \E hash \in (close + 1)..(Len(l) - 1) :
           /\ AllIn(l, close + 1, hash - 1, "space")
           /\ l[hash] = "#"
           /\ AllIn(l, hash + 1, Len(l), "word")

\* the whole line is a step: digits ". " word "(" args ")" and an optional
\* trailing "#" tag, the arguments ending at position close - 1
WellFormedStep(l, dot, open, close) ==
    /\ StepHead(l, dot, open)
    /\ close > open /\ At(l, close) = ")"
    /\ TagOrNothing(l, close)

IsWellFormed(l) ==
    \E dot, open, close \in 1..Len(l) : WellFormedStep(l, dot, open, close)

\* the position of the end-of-plan marker (0: none)
MarkerPos(text) ==
    LET hits == {p \in 1..Len(text) : HasAt(text, p, END_OF_PLAN)}
    IN  IF hits = {} THEN 0 ELSE Min(hits)

\* C2: with the end-of-plan marker in the text, the step records are those
\* of the text before the marker: the steps before it are parsed, nothing
\* after it is.
C2_NothingAfterEndOfPlan ==
    (pdone /\ MarkerPos(ptext) # 0) =>
        results = PlanResults(SubSeq(ptext, 1, MarkerPos(ptext) - 1))

\* C4: for every step line the recorded args is the text between the "("
\* after the tool name and its matching ")"; what follows that ")" on the
\* line is not part of args.
C4_ArgsEndAtMatchingClose ==
    pdone =>
        \A p \in LineStarts(ptext) :
            LET l == LineAt(ptext, p)
            IN  \A dot, open \in 1..Len(l) :
                    (StepHead(l, dot, open) /\ MatchingClose(l, open) # 0) =>
                        \E i \in 1..Len(results) :
                            /\ results[i].idx = PyInt(SubSeq(l, 1, dot - 1))
                            /\ results[i].tool_name = SubSeq(l, dot + 2, open - 1)
                            /\ results[i].args =
                                   SubSeq(l, open + 1, MatchingClose(l, open) - 1)

\* C5: a plan text of one well-formed step line and one garbage line, in
\* either order, yields exactly one step record, that of the well-formed
\* line.
C5_OneStepOneGarbageLine ==
    (pdone /\ NumLines(ptext) = 2) =>
        LET l1 == LineAt(ptext, 1)
            l2 == LineAt(ptext, Max(LineStarts(ptext)))
            IsRecordOf(l) ==
                /\ Len(results) = 1
                /\ \E dot, open, close \in 1..Len(l) :
                       /\ WellFormedStep(l, dot, open, close)
                       /\ results[1].idx = PyInt(SubSeq(l, 1, dot - 1))
                       /\ results[1].tool_name = SubSeq(l, dot + 2, open - 1)
                       /\ results[1].args = SubSeq(l, open + 1, close - 1)
        IN  /\ (IsWellFormed(l1) /\ ~IsWellFormed(l2)) => IsRecordOf(l1)
            /\ (IsWellFormed(l2) /\ ~IsWellFormed(l1)) => IsRecordOf(l2)

(***************************************************************************)
(* What the claims about the reference scan talk about.                    *)
(***************************************************************************)
\* s[a..b] is a non-empty run of digits that reads n and no digit follows
ReadsNumber(s, a, b, n) ==
    /\ a <= b /\ b <= Len(s)
    /\ AllIn(s, a, b, "digit")
    /\ ~IsDigit(At(s, b + 1))
    /\ PyInt(SubSeq(s, a, b)) = n

\* a bare "$n" at position p, its digits ending at position e
BareRef(s, p, e, n) == At(s, p) = "$" /\ ReadsNumber(s, p + 1, e, n)

\* a fully braced "${n}" at position p, its digits ending at position e
BracedRef(s, p, e, n) ==
    /\ At(s, p) = "$" /\ At(s, p + 1) = "{"
    /\ ReadsNumber(s, p + 2, e, n)
    /\ At(s, e + 1) = "}"

\* n occurs as a reference that is not embedded in an identifier: no
\* letter, digit or underscore right before the "$", none right after a
\* bare "$n"
HasFreeStandingRef(s, n) ==
    \E p, e \in 1..Len(s) :
        /\ ~IsWord(At(s, p - 1))
        /\ \/ BareRef(s, p, e, n) /\ ~IsWord(At(s, e + 1))
           \/ BracedRef(s, p, e, n)

\* n occurs in one of the two well-formed forms
HasWellFormedRef(s, n) ==
    \E p, e \in 1..Len(s) : BareRef(s, p, e, n) \/ BracedRef(s, p, e, n)

\* C3: a "$<digits>" embedded in an identifier is no reference: idx is a
\* dependency only through an occurrence that no letter, digit or
\* underscore touches.
C3_EmbeddedSigilIsNoReference ==
    (ddone /\ dout) => HasFreeStandingRef(dargs, didx)

\* C8: idx is a dependency only through a bare "$n" or a fully braced
\* "${n}"; a half-braced "${n" does not count, and the scan never raises.
C8_OnlyWellFormedReferences ==
    (ddone /\ dout) => HasWellFormedRef(dargs, didx)

(***************************************************************************)
(* What the claim about the predictor's events talks about.                *)
(***************************************************************************)
\* the positions in the trace of the entries of one sort made by call c
EntriesOf(ev, c) == {i \in 1..Len(trace) : trace[i].ev = ev /\ trace[i].call = c}

\* C10: a predict / apredict call logs its start before it asks the LLM
\* and, once the completion has returned, exactly one end that carries the
\* id its own start returned; no end carries another call's id or comes
\* before its start; stream and astream log nothing; a call whose LLM call
\* raised logs no end.
C10_EventProtocol ==
    \A c \in Calls :
        /\ kind[c] \in PredictKinds =>
            /\ Cardinality(EntriesOf("start", c)) = 1
            /\ \A r \in EntriesOf("request", c) :
                   \E b \in EntriesOf("start", c) : b < r
            /\ \A e \in EntriesOf("end", c) :
                   /\ \E b \in EntriesOf("start", c) :
                          b < e /\ trace[b].id = trace[e].id
                   /\ \E r \in EntriesOf("request", c) : r < e
                   /\ \A d \in Calls \ {c} : \A b \in EntriesOf("start", d) :
                          trace[b].id # trace[e].id
            /\ Cardinality(EntriesOf("end", c)) =
                   (IF pc[c] = "returned" THEN 1 ELSE 0)
        /\ kind[c] \notin PredictKinds =>
            EntriesOf("start", c) = {} /\ EntriesOf("end", c) = {}

\* two apredict calls interleaved: the second started while the first was
\* awaiting its completion, the first returned, the second raised; and
\* the first's end comes after the second's start
C10_Witness ==
    \E c, d \in Calls :
        /\ c # d
        /\ kind[c] = "apredict" /\ kind[d] = "apredict"
        /\ pc[c] = "returned" /\ pc[d] = "raised"
        /\ \E b \in EntriesOf("start", d), e \in EntriesOf("end", c) : b < e
        /\ \E b \in EntriesOf("start", c), bd \in EntriesOf("start", d) : b < bd

====
